---- MODULE Spec2Model ----
(***************************************************************************)
(* A model of the tiptap-to-html renderer: the plugin registry of Tiptap,  *)
(* the recursive rendering of a document tree by the registered plugins,   *)
(* and the serialisation of a node into a tag by Tag.                      *)
(*                                                                         *)
(* A Rust String is a sequence of one-character strings, so concatenation, *)
(* prefixes and re-parsing are computed character by character.            *)
(* Option<T> is a sequence of length 0 (None) or 1 (Some).                 *)
(***************************************************************************)
EXTENDS Integers, Sequences, FiniteSets, TLC

VARIABLES
    content,      \* Tiptap.content: the root node
    plugins,      \* Tiptap.plugins: HashMap<String, Box<dyn Plugin>>
    result,       \* the value returned by the latest call of Tiptap::render
    calls,        \* history: the add_plugin calls recorded by AddPlugin, in order
    tag_module,   \* which module's Tag is exercised: "main" or "plugins"
    tag,          \* the Tag value handed to Tag::render
    tag_node,     \* the node handed to Tag::render
    tag_output,   \* the inner output handed to Tag::render
    tag_result    \* the value returned by the latest call of Tag::render

vars == <<content, plugins, result, calls,
          tag_module, tag, tag_node, tag_output, tag_result>>

doc_vars == <<content, plugins, result, calls>>
tag_vars == <<tag_module, tag, tag_node, tag_output, tag_result>>

----------------------------------------------------------------------------
(* Bounds *)

MaxNodes == 3      \* nodes of a document tree
MaxAttrs == 2      \* entries of an attribute mapping
MaxCalls == 3      \* add_plugin calls of a registry history

----------------------------------------------------------------------------
(* Option and strings *)

None == <<>>
Some(x) == <<x>>
IsSome(o) == Len(o) = 1
IsNone(o) == Len(o) = 0

RECURSIVE Concat(_)
\* the concatenation of a sequence of strings
Concat(ss) == IF ss = <<>> THEN <<>> ELSE Head(ss) \o Concat(Tail(ss))

RECURSIVE join(_, _)
\* [String]::join(sep)
join(ss, sep) ==
    IF ss = <<>> THEN <<>>
    ELSE IF Len(ss) = 1 THEN Head(ss)
    ELSE Head(ss) \o sep \o join(Tail(ss), sep)

Digit(d) == CASE d = 0 -> "0" [] d = 1 -> "1" [] d = 2 -> "2" [] d = 3 -> "3"
              [] d = 4 -> "4" [] d = 5 -> "5" [] d = 6 -> "6" [] d = 7 -> "7"
              [] d = 8 -> "8" [] d = 9 -> "9"

RECURSIVE NatToString(_)
\* the decimal text of a non-negative integer
NatToString(n) ==
    IF n < 10 THEN <<Digit(n)>> ELSE NatToString(n \div 10) \o <<Digit(n % 10)>>

----------------------------------------------------------------------------
(* serde_json::Value *)

Null == [kind |-> "null"]
Bool(b) == [kind |-> "bool", bool |-> b]
Number(n) == [kind |-> "number", num |-> n]
String(s) == [kind |-> "string", str |-> s]
Array(xs) == [kind |-> "array", items |-> xs]
\* an object is its entries in the iteration order of serde_json::Map
Object(es) == [kind |-> "object", entries |-> es]
Entry(k, v) == [key |-> k, value |-> v]

\* Value::as_object
as_object(v) == IF v.kind = "object" THEN Some(v.entries) ELSE None

\* Value::as_str
as_str(v) == IF v.kind = "string" THEN Some(v.str) ELSE None

\* Value::as_array
as_array(v) == IF v.kind = "array" THEN Some(v.items) ELSE None

RECURSIVE EscapeString(_)
\* the body of a JSON string literal: quote and backslash are escaped
EscapeString(s) ==
    IF s = <<>> THEN <<>>
    ELSE (IF Head(s) = "\"" THEN <<"\\", "\"">>
          ELSE IF Head(s) = "\\" THEN <<"\\", "\\">>
          ELSE <<Head(s)>>) \o EscapeString(Tail(s))

RECURSIVE Value_to_string(_)
\* Value::to_string: the compact JSON text of a value
Value_to_string(v) ==
    CASE v.kind = "null" -> <<"n", "u", "l", "l">>
      [] v.kind = "bool" -> IF v.bool THEN <<"t", "r", "u", "e">>
                                      ELSE <<"f", "a", "l", "s", "e">>
      [] v.kind = "number" -> NatToString(v.num)
      [] v.kind = "string" -> <<"\"">> \o EscapeString(v.str) \o <<"\"">>
      [] v.kind = "array" ->
            <<"[">> \o join([i \in 1..Len(v.items) |-> Value_to_string(v.items[i])],
                            <<",">>) \o <<"]">>
      [] v.kind = "object" ->
            <<"{">> \o join([i \in 1..Len(v.entries) |->
                               <<"\"">> \o EscapeString(v.entries[i].key) \o <<"\"", ":">>
                               \o Value_to_string(v.entries[i].value)],
                            <<",">>) \o <<"}">>

----------------------------------------------------------------------------
(* Tag *)

Tag_new(name, is_self_closing) ==
    [name |-> name, is_self_closing |-> is_self_closing]

\* the match of create_attrs without its Value::Null arm
value_str_null_literal(value) ==
    CASE value.kind = "string" -> value.str
      [] OTHER -> Value_to_string(value)

\* the text of one attribute value (the match in create_attrs)
value_str(value) ==
    CASE value.kind = "null" -> <<>>
      [] value.kind = "string" -> value.str
      [] OTHER -> Value_to_string(value)

\* format!("{}={}", key, value_str): the quotes forgotten
attr_str_unquoted(key, value) == key \o <<"=">> \o value_str(value)

\* format!("{}=\"{}\"", key, value_str)
attr_str(key, value) == key \o <<"=", "\"">> \o value_str(value) \o <<"\"">>

\* Tag::create_attrs
Tag_create_attrs(attrs) ==
    LET attr_strs == [i \in 1..Len(attrs) |-> attr_str(attrs[i].key, attrs[i].value)]
    IN  join(attr_strs, <<" ">>)

\* Tag::render_opening of main.rs
Tag_render_opening(self, attrs) ==
    IF self.is_self_closing
    THEN <<"<">> \o self.name \o <<" ">>
         \o (IF IsSome(attrs) THEN Tag_create_attrs(attrs[1]) ELSE <<>>)
         \o <<" ", "/", ">">>
    ELSE <<"<">> \o self.name \o <<">">>

\* utils::push_front
push_front(s, prefix) == prefix \o s

\* Tag::render_opening of plugins/mod.rs
plugins_Tag_render_opening(self, attrs) ==
    IF self.is_self_closing
    THEN <<"<">> \o self.name \o <<" ">>
         \o (IF IsSome(attrs) THEN Tag_create_attrs(attrs[1]) ELSE <<>>)
         \o <<" ", "/", ">">>
    ELSE <<"<">> \o self.name
         \o (IF IsSome(attrs) THEN push_front(Tag_create_attrs(attrs[1]), <<" ">>)
             ELSE <<>>)
         \o <<">">>

\* Tag::render_closing
Tag_render_closing(self) ==
    IF self.is_self_closing THEN <<>> ELSE <<"<", "/">> \o self.name \o <<">">>

\* node.get("attrs").and_then(|attrs| attrs.as_object())
node_attrs(node) == IF IsSome(node.attrs) THEN as_object(node.attrs[1]) ELSE None

\* Tag::render of main.rs
Tag_render(self, output, node) ==
    Tag_render_opening(self, node_attrs(node)) \o output \o Tag_render_closing(self)

\* Tag::render of plugins/mod.rs
plugins_Tag_render(self, output, node) ==
    plugins_Tag_render_opening(self, node_attrs(node)) \o output
    \o Tag_render_closing(self)

----------------------------------------------------------------------------
(* Result<String, TiptapError> *)

Ok(s) == [ok |-> TRUE, out |-> s, type_name |-> None, panicked |-> FALSE]
\* TiptapError::TypeNotFound { type_name }
TypeNotFound(type_name) ==
    [ok |-> FALSE, out |-> <<>>, type_name |-> type_name, panicked |-> FALSE]
\* Option::unwrap on None: the call does not return, the thread unwinds
Panic == [ok |-> FALSE, out |-> <<>>, type_name |-> None, panicked |-> TRUE]

----------------------------------------------------------------------------
(* Plugins *)

PluginKinds == {"DocPlugin", "ParagraphPlugin", "ImagePlugin", "TextPlugin"}

\* define_tag_plugin!(DocPlugin, "doc", "div", false) and the two after it
get_tag(self) ==
    CASE self = "DocPlugin" -> Tag_new(<<"d", "i", "v">>, FALSE)
      [] self = "ParagraphPlugin" -> Tag_new(<<"p">>, FALSE)
      [] self = "ImagePlugin" -> Tag_new(<<"i", "m", "g">>, TRUE)

\* HashMap::get
lookup(map, key) == IF key \in DOMAIN map THEN Some(map[key]) ELSE None

\* TextPlugin::render writing the text as its JSON literal
TextPlugin_render_literal(node) ==
    LET output == <<>> IN
    IF IsSome(node.text) THEN Ok(output \o Value_to_string(node.text[1]))
    ELSE Ok(output)

\* TextPlugin::render
TextPlugin_render(node) ==
    LET output == <<>> IN
    IF IsSome(node.text)
    THEN LET text == as_str(node.text[1])
         IN  IF IsSome(text) THEN Ok(output \o text[1]) ELSE Panic
    ELSE Ok(output)

RECURSIVE Plugin_render(_, _, _)
RECURSIVE render_children(_, _, _, _)

\* the loop failing on a child it cannot dispatch
render_children_strict(children, i, output, registry) ==
    IF i > Len(children) THEN Ok(output)
    ELSE LET child_node == children[i]
             child_node_type == child_node.type
         IN  IF IsSome(child_node_type)
             THEN LET name == as_str(child_node_type[1])
                  IN  IF IsNone(name) THEN Panic
                      ELSE LET plugin == lookup(registry, name[1])
                           IN  IF IsSome(plugin)
                               THEN LET r == Plugin_render(plugin[1], child_node, registry)
                                    IN  IF r.ok
                                        THEN render_children(children, i + 1,
                                                             output \o r.out, registry)
                                        ELSE r
                               ELSE TypeNotFound(Some(name[1]))
             ELSE TypeNotFound(None)

\* the loop putting each child in front of the ones before it
render_children_reversed(children, i, output, registry) ==
    IF i > Len(children) THEN Ok(output)
    ELSE LET child_node == children[i]
             child_node_type == child_node.type
         IN  IF IsSome(child_node_type)
             THEN LET name == as_str(child_node_type[1])
                  IN  IF IsNone(name) THEN Panic
                      ELSE LET plugin == lookup(registry, name[1])
                           IN  IF IsSome(plugin)
                               THEN LET r == Plugin_render(plugin[1], child_node, registry)
                                    IN  IF r.ok
                                        THEN render_children(children, i + 1,
                                                             r.out \o output, registry)
                                        ELSE r
                               ELSE render_children(children, i + 1, output, registry)
             ELSE render_children(children, i + 1, output, registry)

\* the loop over content of the plugins of define_tag_plugin!, from child i on
render_children(children, i, output, registry) ==
    IF i > Len(children) THEN Ok(output)
    ELSE LET child_node == children[i]
             child_node_type == child_node.type
         IN  IF IsSome(child_node_type)
             THEN LET name == as_str(child_node_type[1])
                  IN  IF IsNone(name) THEN Panic
                      ELSE LET plugin == lookup(registry, name[1])
                           IN  IF IsSome(plugin)
                               THEN LET r == Plugin_render(plugin[1], child_node, registry)
                                    IN  IF r.ok
                                        THEN render_children(children, i + 1,
                                                             output \o r.out, registry)
                                        ELSE r
                               ELSE render_children(children, i + 1, output, registry)
             ELSE render_children(children, i + 1, output, registry)

\* Plugin::render of a tag plugin failing on a node without content
TagPlugin_render_needs_content(self, node, registry) ==
    LET r == IF IsSome(node.content)
             THEN LET children == as_array(node.content[1])
                  IN  IF IsSome(children)
                      THEN render_children(children[1], 1, <<>>, registry)
                      ELSE Panic
             ELSE TypeNotFound(None)
    IN  IF r.ok THEN Ok(Tag_render(get_tag(self), r.out, node)) ELSE r

\* Plugin::render of the plugins of define_tag_plugin!
TagPlugin_render(self, node, registry) ==
    LET r == IF IsSome(node.content)
             THEN LET children == as_array(node.content[1])
                  IN  IF IsSome(children)
                      THEN render_children(children[1], 1, <<>>, registry)
                      ELSE Panic
             ELSE Ok(<<>>)
    IN  IF r.ok THEN Ok(Tag_render(get_tag(self), r.out, node)) ELSE r

\* dyn Plugin::render
Plugin_render(self, node, registry) ==
    IF self = "TextPlugin" THEN TextPlugin_render(node)
    ELSE TagPlugin_render(self, node, registry)

----------------------------------------------------------------------------
(* Tiptap *)

\* HashMap::new
HashMap_new == [t \in {} |-> "DocPlugin"]

\* an insert that keeps the value a key already has
HashMap_insert_if_vacant(map, key, value) ==
    [t \in DOMAIN map \cup {key} |-> IF t \in DOMAIN map THEN map[t] ELSE value]

\* HashMap::insert
HashMap_insert(map, key, value) ==
    [t \in DOMAIN map \cup {key} |-> IF t = key THEN value ELSE map[t]]

\* Tiptap::render losing the discriminant of the error
Tiptap_render_no_name(root, registry) ==
    LET type_name == root.type
        node_type == IF IsSome(type_name) THEN as_str(type_name[1]) ELSE None
        plugin == IF IsSome(node_type) THEN lookup(registry, node_type[1]) ELSE None
    IN  IF IsSome(type_name) /\ IsNone(node_type) THEN Panic
        ELSE IF IsSome(plugin) THEN Plugin_render(plugin[1], root, registry)
        ELSE TypeNotFound(None)

\* Tiptap::render
Tiptap_render(root, registry) ==
    LET type_name == root.type
        node_type == IF IsSome(type_name) THEN as_str(type_name[1]) ELSE None
        plugin == IF IsSome(node_type) THEN lookup(registry, node_type[1]) ELSE None
    IN  IF IsSome(type_name) /\ IsNone(node_type) THEN Panic
        ELSE IF IsSome(plugin) THEN Plugin_render(plugin[1], root, registry)
        ELSE TypeNotFound(node_type)

\* Tiptap::add_plugin: the registry after the call
Tiptap_add_plugin(registry, node_type, plugin) ==
    HashMap_insert(registry, node_type, plugin)

----------------------------------------------------------------------------
(* Inputs: nodes, documents, attribute mappings *)

TypeNames == {"doc", "paragraph", "image", "text"}

Str_hi == <<"h", "i">>
Str_class == <<"c", "l", "a", "s", "s">>
Str_test == <<"t", "e", "s", "t">>
Str_alt == <<"a", "l", "t">>
Str_src == <<"s", "r", "c">>
Str_title == <<"t", "i", "t", "l", "e">>

\* a node: each field absent or a JSON value; a type discriminant is kept
\* whole, as it is only compared
Node(type, attrs, node_content, text) ==
    [type |-> type, attrs |-> attrs, content |-> node_content, text |-> text]

\* {"class": "test"}
Scenario2Attrs == <<Entry(Str_class, String(Str_test))>>
\* {"alt": "x", "src": "y", "title": null}
Scenario3Attrs == <<Entry(Str_alt, String(<<"x">>)), Entry(Str_src, String(<<"y">>)),
                    Entry(Str_title, Null)>>

\* The childless nodes documents are built from: each field present or absent.
NodeShapes ==
    { Node(Some(String("doc")), None, Some(Array(<<>>)), None),
      Node(Some(String("paragraph")), Some(Object(Scenario2Attrs)), None, None),
      Node(Some(String("text")), None, None, Some(String(Str_hi))),
      Node(Some(String("text")), Some(Object(Scenario2Attrs)), None, None),
      Node(Some(String("image")), Some(Object(Scenario3Attrs)), None, None),
      Node(Some(String("image")), None, None, None),
      Node(None, None, None, Some(String(Str_hi))) }

\* a node of the given shape with the given children as its content
with_children(shape, children) ==
    IF children = <<>> THEN shape ELSE [shape EXCEPT !.content = Some(Array(children))]

RECURSIVE TreesOfSize(_)
RECURSIVE Forests(_)
\* the trees of exactly n nodes
TreesOfSize(n) ==
    { with_children(s, f) : s \in NodeShapes, f \in Forests(n - 1) }
\* the sequences of trees of exactly k nodes in all
Forests(k) ==
    IF k = 0 THEN {<<>>}
    ELSE UNION { { <<t>> \o f : t \in TreesOfSize(j), f \in Forests(k - j) } : j \in 1..k }

Documents == UNION { TreesOfSize(n) : n \in 1..MaxNodes }

\* doc > paragraph > text
Scenario1Document ==
    Node(Some(String("doc")), None,
         Some(Array(<<Node(Some(String("paragraph")), None,
                           Some(Array(<<Node(Some(String("text")), None, None,
                                             Some(String(Str_hi)))>>)),
                           None)>>)),
         None)

\* doc > [image, text]
SiblingsDocument ==
    Node(Some(String("doc")), None,
         Some(Array(<<Node(Some(String("image")), Some(Object(Scenario3Attrs)), None, None),
                      Node(Some(String("text")), None, None, Some(String(Str_hi)))>>)),
         None)

\* documents with a field of another JSON kind than the renderers unwrap:
\* a type or a text that is no string, a content that is no array
MalformedDocuments ==
    { Node(Some(Number(12)), None, None, None),
      Node(Some(String("doc")), None, Some(Null), None),
      Node(Some(String("doc")), None,
           Some(Array(<<Node(Some(Number(12)), None, None, None)>>)), None),
      Node(Some(String("doc")), None,
           Some(Array(<<Node(Some(String("text")), None, None, Some(Number(12)))>>)),
           None) }


----------------------------------------------------------------------------
(* The document renderer: registration by the register functions, render *)

NoTag == Tag_new(<<>>, FALSE)
NoNode == Node(None, None, None, None)

TagIdle ==
    /\ tag_module = "main"
    /\ tag = NoTag
    /\ tag_node = NoNode
    /\ tag_output = <<>>
    /\ tag_result = None

Init ==
    /\ content \in Documents \cup {Scenario1Document} \cup MalformedDocuments
    /\ plugins = HashMap_new
    /\ result = None
    /\ calls = <<>>
    /\ TagIdle

\* tiptap.add_plugin(node_type, plugin), which returns ()
add_plugin(node_type, plugin) ==
    /\ plugins' = Tiptap_add_plugin(plugins, node_type, plugin)
    /\ result' = None
    /\ UNCHANGED <<content, tag_vars>>

DocPlugin_register == add_plugin("doc", "DocPlugin") /\ UNCHANGED calls
ParagraphPlugin_register == add_plugin("paragraph", "ParagraphPlugin") /\ UNCHANGED calls
ImagePlugin_register == add_plugin("image", "ImagePlugin") /\ UNCHANGED calls
TextPlugin_register == add_plugin("text", "TextPlugin") /\ UNCHANGED calls

\* tiptap.render()
Render ==
    /\ result' = Some(Tiptap_render(content, plugins))
    /\ UNCHANGED <<content, plugins, calls, tag_vars>>

Next ==
    \/ DocPlugin_register
    \/ ParagraphPlugin_register
    \/ ImagePlugin_register
    \/ TextPlugin_register
    \/ Render

Spec == Init /\ [][Next]_vars

----------------------------------------------------------------------------
(* The registry: any add_plugin calls, with their history *)

RegistryDocuments == {Scenario1Document, SiblingsDocument}

Call(node_type, plugin) == [node_type |-> node_type, plugin |-> plugin]

InitRegistry ==
    /\ content \in RegistryDocuments
    /\ plugins = HashMap_new
    /\ result = None
    /\ calls = <<>>
    /\ TagIdle

\* tiptap.add_plugin(node_type, plugin), recorded in the history
AddPlugin(node_type, plugin) ==
    /\ Len(calls) < MaxCalls
    /\ add_plugin(node_type, plugin)
    /\ calls' = Append(calls, Call(node_type, plugin))

NextRegistry ==
    \/ \E node_type \in TypeNames, plugin \in PluginKinds : AddPlugin(node_type, plugin)
    \/ Render

SpecRegistry == InitRegistry /\ [][NextRegistry]_vars

----------------------------------------------------------------------------
(* Tag::render of both modules on bounded attribute mappings *)

AttrKeys == { <<"a">>, <<"b">>, <<"a", " ">> }

AttrValues ==
    { Null, String(<<"x">>), String(<<"x", " ">>), String(<<"\"">>),
      Number(12), Bool(TRUE), Array(<<String(<<"x">>)>>) }

KeysOf(m) == { m[i].key : i \in 1..Len(m) }

RECURSIVE MapsOfLen(_)
\* the mappings of n entries, keys unique, in every iteration order
MapsOfLen(n) ==
    IF n = 0 THEN {<<>>}
    ELSE UNION { { Append(m, Entry(k, v)) : k \in AttrKeys \ KeysOf(m), v \in AttrValues }
                 : m \in MapsOfLen(n - 1) }

AttrMaps ==
    UNION { MapsOfLen(n) : n \in 0..MaxAttrs } \cup {Scenario2Attrs, Scenario3Attrs}

\* the nodes handed to Tag::render: attrs absent, not an object, or a mapping
TagNodes ==
    { Node(None, a, None, None) :
        a \in {None, Some(Null)} \cup { Some(Object(m)) : m \in AttrMaps } }

Tags == { get_tag(p) : p \in PluginKinds \ {"TextPlugin"} }

TagOutputs == { <<>>, Str_hi }

InitTag ==
    /\ content = NoNode
    /\ plugins = HashMap_new
    /\ result = None
    /\ calls = <<>>
    /\ tag_module \in {"main", "plugins"}
    /\ tag \in Tags
    /\ tag_node \in TagNodes
    /\ tag_output \in TagOutputs
    /\ tag_result = None

\* tag.render(output, node) with the Tag of main.rs
MainTagRender ==
    /\ tag_module = "main"
    /\ tag_result' = Some(Tag_render(tag, tag_output, tag_node))
    /\ UNCHANGED <<doc_vars, tag_module, tag, tag_node, tag_output>>

\* tag.render(output, node) with the Tag of plugins/mod.rs
PluginsTagRender ==
    /\ tag_module = "plugins"
    /\ tag_result' = Some(plugins_Tag_render(tag, tag_output, tag_node))
    /\ UNCHANGED <<doc_vars, tag_module, tag, tag_node, tag_output>>

NextTag ==
    \/ MainTagRender
    \/ PluginsTagRender

SpecTag == InitTag /\ [][NextTag]_vars

----------------------------------------------------------------------------
(* Properties of the document renderer (Spec) *)

Rendered == IsSome(result)

\* the node's type is the given discriminant
TypeIs(node, t) == node.type = Some(String(t))

\* the node's type names a registered plugin
Registered(node) ==
    /\ IsSome(node.type)
    /\ node.type[1].kind = "string"
    /\ node.type[1].str \in DOMAIN plugins

\* the plugin a node with a registered type is dispatched to
PluginOf(node) == plugins[node.type[1].str]

\* the plugin the root is dispatched to
RootPlugin == PluginOf(content)

IsContainer(plugin) == plugin \in {"DocPlugin", "ParagraphPlugin", "ImagePlugin"}

ChildrenOf(node) ==
    IF IsSome(node.content) /\ node.content[1].kind = "array"
    THEN node.content[1].items ELSE <<>>

RECURSIVE WellShaped(_)
\* every field present in the tree has the JSON kind of the data model: type
\* and text are strings, content is an array of nodes
WellShaped(node) ==
    /\ IsSome(node.type) => node.type[1].kind = "string"
    /\ IsSome(node.text) => node.text[1].kind = "string"
    /\ IsSome(node.content) => node.content[1].kind = "array"
    /\ \A i \in 1..Len(ChildrenOf(node)) : WellShaped(ChildrenOf(node)[i])

RECURSIVE RegisteredOnly(_)
\* the children with a registered type, in order
RegisteredOnly(children) ==
    IF children = <<>> THEN <<>>
    ELSE (IF Registered(Head(children)) THEN <<Head(children)>> ELSE <<>>)
         \o RegisteredOnly(Tail(children))

\* s occurs in t
Occurs(s, t) == \E i \in 1..(Len(t) + 1) : i + Len(s) - 1 <= Len(t)
                                          /\ SubSeq(t, i, i + Len(s) - 1) = s

\* C1: whatever is registered, render of a root whose type t is not registered
\* returns TypeNotFound carrying Some(t), and of a root without type returns
\* TypeNotFound carrying None; no markup comes with the error.
C1_RootTypeNotFound ==
    Rendered =>
        /\ IsNone(content.type) =>
              /\ ~result[1].ok
              /\ ~result[1].panicked
              /\ result[1].type_name = None
              /\ result[1].out = <<>>
        /\ (IsSome(content.type) /\ content.type[1].kind = "string"
            /\ ~Registered(content)) =>
              /\ ~result[1].ok
              /\ ~result[1].panicked
              /\ result[1].type_name = <<content.type[1].str>>
              /\ result[1].out = <<>>

C1_Witness ==
    /\ Rendered
    /\ TypeIs(content, "doc")
    /\ DOMAIN plugins = {"paragraph", "text"}
    /\ ~result[1].ok
    /\ result[1].type_name = <<"doc">>

RECURSIVE Prune(_)
\* the tree without the children, at any depth, that have no registered type
Prune(node) ==
    IF IsSome(node.content)
    THEN LET kept == RegisteredOnly(ChildrenOf(node))
         IN  [node EXCEPT
                 !.content = Some(Array([i \in 1..Len(kept) |-> Prune(kept[i])]))]
    ELSE node

\* C2: under a container renderer a child without type or with an
\* unregistered type adds nothing and raises no error at any depth (the output
\* is that of the tree without those children), and the output of every
\* registered sibling is part of the parent's output.
C2_UnregisteredChildSkipped ==
    (Rendered /\ WellShaped(content) /\ Registered(content)
     /\ IsContainer(RootPlugin)) =>
        /\ result[1].ok
        /\ result[1] = Tiptap_render(Prune(content), plugins)
        /\ \A i \in 1..Len(ChildrenOf(content)) :
              LET c == ChildrenOf(content)[i]
              IN  Registered(c) =>
                     LET r == Plugin_render(PluginOf(c), c, plugins)
                     IN  r.ok /\ Occurs(r.out, result[1].out)

C2_Witness ==
    /\ Rendered
    /\ result[1].ok
    /\ TypeIs(content, "doc")
    /\ Len(ChildrenOf(content)) = 2
    /\ ~Registered(ChildrenOf(content)[1])
    /\ TypeIs(ChildrenOf(content)[2], "text")
    /\ Registered(ChildrenOf(content)[2])
    /\ result[1].out = <<"<", "d", "i", "v", ">", "h", "i", "<", "/", "d", "i", "v", ">">>

\* the outputs of the registered children, in the order of content
ChildOutputs(node) ==
    LET kept == RegisteredOnly(ChildrenOf(node))
    IN  Concat([i \in 1..Len(kept) |->
                   Plugin_render(PluginOf(kept[i]), kept[i], plugins).out])

\* C3: a container that is not self-closing renders as its opening tag, then
\* the outputs of its registered children in the order of content, then
\* </name>; without children it is the empty wrapped tag (<div></div>), and
\* doc > paragraph > text renders as <div><p>TEXT</p></div>.
C3_ContainerWrapsChildren ==
    (Rendered /\ WellShaped(content) /\ Registered(content)
     /\ RootPlugin \in {"DocPlugin", "ParagraphPlugin"}) =>
        LET t == get_tag(RootPlugin) IN
        /\ result[1].ok
        /\ result[1].out = Tag_render_opening(t, node_attrs(content))
                           \o ChildOutputs(content)
                           \o <<"<", "/">> \o t.name \o <<">">>
        /\ (RootPlugin = "DocPlugin" /\ ChildrenOf(content) = <<>>) =>
              result[1].out = <<"<", "d", "i", "v", ">", "<", "/", "d", "i", "v", ">">>
        /\ (content = Scenario1Document /\ DOMAIN plugins = {"doc", "paragraph", "text"}) =>
              result[1].out = <<"<", "d", "i", "v", ">", "<", "p", ">", "h", "i",
                                "<", "/", "p", ">", "<", "/", "d", "i", "v", ">">>

C3_Witness ==
    /\ Rendered
    /\ TypeIs(content, "doc")
    /\ Len(ChildrenOf(content)) = 2
    /\ TypeIs(ChildrenOf(content)[1], "paragraph")
    /\ TypeIs(ChildrenOf(content)[2], "text")
    /\ DOMAIN plugins = {"doc", "paragraph", "text"}
    /\ result[1].out = <<"<", "d", "i", "v", ">", "<", "p", ">", "<", "/", "p", ">",
                         "h", "i", "<", "/", "d", "i", "v", ">">>

RECURSIVE FillDefaults(_)
\* the tree with every absent content, text and attrs made present and empty
FillDefaults(node) ==
    [type |-> node.type,
     attrs |-> IF IsSome(node.attrs) THEN node.attrs ELSE Some(Object(<<>>)),
     content |-> Some(Array([i \in 1..Len(ChildrenOf(node)) |->
                                FillDefaults(ChildrenOf(node)[i])])),
     text |-> IF IsSome(node.text) THEN node.text ELSE Some(String(<<>>))]

\* C7: with the reference renderers registered under their own types, and
\* for every tree of nodes of the data model (type and text strings, content
\* an array of nodes, each of them and attrs present or absent), render
\* returns Ok exactly when the root has a registered type; an absent content,
\* text or attrs, at the root or below, counts as an empty one.
C7_FailsOnlyAtRootDispatch ==
    (Rendered /\ WellShaped(content)) =>
        /\ ~result[1].panicked
        /\ result[1].ok <=> Registered(content)
        /\ result[1] = Tiptap_render(FillDefaults(content), plugins)

C7_Witness ==
    /\ Rendered
    /\ result[1].ok
    /\ TypeIs(content, "doc")
    /\ Len(ChildrenOf(content)) = 2
    /\ TypeIs(ChildrenOf(content)[1], "paragraph")
    /\ IsNone(ChildrenOf(content)[1].content)
    /\ TypeIs(ChildrenOf(content)[2], "text")
    /\ IsNone(ChildrenOf(content)[2].text)
    /\ DOMAIN plugins = TypeNames

\* C8: the text renderer returns the text field itself, unwrapped, and the
\* empty string when there is none, whatever the node's content and attrs
\* and whatever is registered.
C8_TextVerbatim ==
    (Rendered /\ Registered(content) /\ RootPlugin = "TextPlugin"
     /\ (IsSome(content.text) => content.text[1].kind = "string")) =>
        /\ result[1].ok
        /\ result[1].out = IF IsSome(content.text) THEN content.text[1].str ELSE <<>>

C8_Witness ==
    /\ Rendered
    /\ TypeIs(content, "text")
    /\ content.text = Some(String(Str_hi))
    /\ Len(ChildrenOf(content)) = 2
    /\ TypeIs(ChildrenOf(content)[1], "paragraph")
    /\ DOMAIN plugins = {"text", "paragraph"}
    /\ result[1].out = Str_hi

----------------------------------------------------------------------------
(* Properties of Tag::render (SpecTag) *)

TagRendered == IsSome(tag_result)

\* the attribute mapping of the node, when it has one
TagAttrs == node_attrs(tag_node)

\* the text an attribute value is written as
ValueText(value) ==
    IF value.kind = "null" THEN <<>>
    ELSE IF value.kind = "string" THEN value.str
    ELSE Value_to_string(value)

RECURSIVE ExpectedAttrs(_)
\* key="value" for each entry in order, one space between two entries
ExpectedAttrs(m) ==
    IF m = <<>> THEN <<>>
    ELSE m[1].key \o <<"=", "\"">> \o ValueText(m[1].value) \o <<"\"">>
         \o (IF Len(m) > 1 THEN <<" ">> \o ExpectedAttrs(Tail(m)) ELSE <<>>)

\* C4: a tag that is not self-closing opens with <name A>, A the attribute
\* fragment after exactly one space, when the node has an attrs mapping, and
\* with <name> when it has none; a paragraph with attrs {class: test} around
\* hi is <p class="test">hi</p>.
C4_OpeningTagCarriesAttrs ==
    (TagRendered /\ ~tag.is_self_closing) =>
        tag_result[1] = <<"<">> \o tag.name
                        \o (IF IsSome(TagAttrs) THEN <<" ">> \o ExpectedAttrs(TagAttrs[1])
                            ELSE <<>>)
                        \o <<">">> \o tag_output \o <<"<", "/">> \o tag.name \o <<">">>

\* C5: a node rendered by a self-closing tag is <name ATTRS /> and nothing
\* else (<name  /> without attrs): no closing tag and no inner content, also
\* when the node has registered children.
C5_SelfClosingHasNoContent ==
    (Rendered /\ WellShaped(content) /\ Registered(content)
     /\ RootPlugin = "ImagePlugin") =>
        /\ result[1].ok
        /\ result[1].out = <<"<", "i", "m", "g", " ">>
                           \o (IF IsSome(node_attrs(content))
                               THEN ExpectedAttrs(node_attrs(content)[1]) ELSE <<>>)
                           \o <<" ", "/", ">">>

\* C6: create_attrs writes key="value" for each entry of the mapping in its
\* iteration order, one space between two entries and nothing for an empty
\* mapping; null is written as the empty string, a string as itself, any
\* other value as its JSON text; {alt: x, src: y, title: null} on an image
\* gives <img alt="x" src="y" title="" />.
C6_AttrsSerialized ==
    (TagRendered /\ tag.is_self_closing /\ IsSome(TagAttrs)) =>
        /\ tag_result[1] = <<"<">> \o tag.name \o <<" ">> \o ExpectedAttrs(TagAttrs[1])
                           \o <<" ", "/", ">">> \o tag_output
        /\ (TagAttrs[1] = Scenario3Attrs /\ tag_output = <<>>) =>
              tag_result[1] = <<"<", "i", "m", "g", " ",
                                "a", "l", "t", "=", "\"", "x", "\"", " ",
                                "s", "r", "c", "=", "\"", "y", "\"", " ",
                                "t", "i", "t", "l", "e", "=", "\"", "\"",
                                " ", "/", ">">>
        /\ (TagAttrs[1] = <<Entry(<<"b">>, Number(12)), Entry(<<"a">>, Array(<<String(<<"x">>)>>))>>
            /\ tag_output = <<>>) =>
              tag_result[1] = <<"<", "i", "m", "g", " ",
                                "b", "=", "\"", "1", "2", "\"", " ",
                                "a", "=", "\"", "[", "\"", "x", "\"", "]", "\"",
                                " ", "/", ">">>

C6_Witness ==
    /\ TagRendered
    /\ tag.is_self_closing
    /\ tag_node.attrs = Some(Object(<<Entry(<<"b">>, Null), Entry(<<"a">>, Bool(TRUE))>>))
    /\ tag_output = <<>>
    /\ tag_result[1] = <<"<", "i", "m", "g", " ", "b", "=", "\"", "\"", " ",
                         "a", "=", "\"", "t", "r", "u", "e", "\"", " ", "/", ">">>

\* the first place of character c in s, 0 when there is none
IndexOf(s, c) ==
    IF \E i \in 1..Len(s) : s[i] = c
    THEN CHOOSE i \in 1..Len(s) : s[i] = c /\ \A j \in 1..(i - 1) : s[j] # c
    ELSE 0

Parsed(pairs) == [ok |-> TRUE, pairs |-> pairs]
ParseError == [ok |-> FALSE, pairs |-> <<>>]
Pair(k, v) == [key |-> k, value |-> v]

RECURSIVE ParsePairs(_)
\* key="value" pairs, one space apart; a key is a non-empty run of characters
\* other than space, = and "; a value runs to the next "
ParsePairs(s) ==
    LET eq == IndexOf(s, "=") IN
    IF eq < 2 \/ eq + 1 > Len(s) THEN ParseError
    ELSE LET key == SubSeq(s, 1, eq - 1)
             rest == SubSeq(s, eq + 2, Len(s))
             q == IndexOf(rest, "\"")
         IN  IF \/ s[eq + 1] # "\""
                \/ \E i \in 1..Len(key) : key[i] \in {" ", "\""}
                \/ q = 0
             THEN ParseError
             ELSE LET value == SubSeq(rest, 1, q - 1)
                      after == SubSeq(rest, q + 1, Len(rest))
                  IN  IF after = <<>> THEN Parsed(<<Pair(key, value)>>)
                      ELSE IF Head(after) = " " /\ Len(after) > 1
                      THEN LET r == ParsePairs(Tail(after))
                           IN  IF r.ok THEN Parsed(<<Pair(key, value)>> \o r.pairs)
                               ELSE ParseError
                      ELSE ParseError

\* the attribute fragment of an opening tag <name FRAGMENT />, parsed
ParseOpening(opening, name) ==
    LET n == Len(name) IN
    IF /\ Len(opening) >= n + 5
       /\ SubSeq(opening, 1, n + 2) = <<"<">> \o name \o <<" ">>
       /\ SubSeq(opening, Len(opening) - 2, Len(opening)) = <<" ", "/", ">">>
    THEN LET fragment == SubSeq(opening, n + 3, Len(opening) - 3)
         IN  IF fragment = <<>> THEN Parsed(<<>>) ELSE ParsePairs(fragment)
    ELSE ParseError

\* the keys and value texts of a mapping, in order
PairsOf(m) == [i \in 1..Len(m) |-> Pair(m[i].key, ValueText(m[i].value))]

\* keys and value texts that the attribute syntax can carry
Parseable(m) ==
    \A i \in 1..Len(m) :
        /\ m[i].key # <<>>
        /\ \A j \in 1..Len(m[i].key) : m[i].key[j] \notin {" ", "=", "\""}
        /\ \A j \in 1..Len(ValueText(m[i].value)) : ValueText(m[i].value)[j] # "\""

\* C10, as stated: for every attribute mapping, parsing the attribute fragment
\* of the rendered self-closing opening tag gives back the keys and values of
\* the mapping in its order.
C10_RoundTripEveryMapping ==
    (TagRendered /\ tag.is_self_closing /\ IsSome(TagAttrs) /\ tag_output = <<>>) =>
        ParseOpening(tag_result[1], tag.name) = Parsed(PairsOf(TagAttrs[1]))

\* C10, amended: for every attribute mapping whose keys are non-empty and hold
\* no space, = or ", and whose value texts hold no ", parsing the attribute
\* fragment of the rendered self-closing opening tag gives back the keys and
\* the value texts of the mapping in its order.
C10_RoundTripParseable ==
    (TagRendered /\ tag.is_self_closing /\ IsSome(TagAttrs) /\ tag_output = <<>>
     /\ Parseable(TagAttrs[1])) =>
        ParseOpening(tag_result[1], tag.name) = Parsed(PairsOf(TagAttrs[1]))

C10_Witness ==
    /\ TagRendered
    /\ tag.is_self_closing
    /\ tag_output = <<>>
    /\ tag_node.attrs = Some(Object(<<Entry(<<"b">>, String(<<"x", " ">>)),
                                       Entry(<<"a">>, Null)>>))
    /\ ParseOpening(tag_result[1], tag.name)
          = Parsed(<<Pair(<<"b">>, <<"x", " ">>), Pair(<<"a">>, <<>>)>>)

----------------------------------------------------------------------------
(* Properties of the registry (SpecRegistry) *)

CalledTypes == { calls[i].node_type : i \in 1..Len(calls) }

\* the plugin passed by the last add_plugin call for the type
LastPlugin(t) ==
    LET last == CHOOSE i \in 1..Len(calls) :
                    /\ calls[i].node_type = t
                    /\ \A j \in (i + 1)..Len(calls) : calls[j].node_type # t
    IN  calls[last].plugin

\* how the output of a node starts under the given plugin
OutputHead(plugin, node) ==
    IF plugin = "TextPlugin"
    THEN (IF IsSome(node.text) THEN node.text[1].str ELSE <<>>)
    ELSE <<"<">> \o get_tag(plugin).name

IsPrefix(s, t) == Len(s) <= Len(t) /\ SubSeq(t, 1, Len(s)) = s

\* C9: the registry is empty before any add_plugin call, and after any calls
\* it holds, for each type named in a call and for no other, the plugin of
\* the last call naming that type; a render then dispatches the root, and
\* each child with a registered type, to that plugin.
C9_LastRegistrationWins ==
    /\ DOMAIN plugins = CalledTypes
    /\ \A t \in CalledTypes : plugins[t] = LastPlugin(t)
    /\ Rendered =>
          IF IsSome(content.type) /\ content.type[1].str \in CalledTypes
          THEN LET root == LastPlugin(content.type[1].str) IN
               /\ result[1].ok
               /\ IsPrefix(OutputHead(root, content), result[1].out)
               /\ root # "TextPlugin" =>
                     \A i \in 1..Len(ChildrenOf(content)) :
                        LET c == ChildrenOf(content)[i] IN
                        (IsSome(c.type) /\ c.type[1].str \in CalledTypes) =>
                            Occurs(OutputHead(LastPlugin(c.type[1].str), c),
                                   result[1].out)
          ELSE ~result[1].ok

C9_Witness ==
    /\ Len(calls) = 3
    /\ calls[1] = Call("doc", "TextPlugin")
    /\ calls[2] = Call("text", "ParagraphPlugin")
    /\ calls[3] = Call("doc", "DocPlugin")
    /\ content = SiblingsDocument
    /\ Rendered
    /\ result[1].out = <<"<", "d", "i", "v", ">", "<", "p", ">", "<", "/", "p", ">",
                         "<", "/", "d", "i", "v", ">">>

====
